---------------------------- MODULE Spec2Model ----------------------------
(***************************************************************************)
(* The on-chain settlement logic of proto-pay: the escrow module           *)
(* (sources/escrow.move: lock_coin, claim_coin, lock_nft, claim_nft) and   *)
(* the batch module (batch_send_token, init) over a ledger of owned coins, *)
(* owned NFTs, shared escrow records, the shared ServiceConfig, the chain  *)
(* clock and the event log.  One step of the model is one transaction: it  *)
(* either commits all the effects of the entry function or aborts and      *)
(* leaves the ledger as it was.  `result` is the receipt of the            *)
(* transaction just executed (its call and its outcome); the next          *)
(* transaction starts once the receipt has been taken (NextTransaction).   *)
(***************************************************************************)
EXTENDS Integers, Sequences, FiniteSets, TLC

\* ------------------------------------------------------------- bounds
\* Highest object id the model allocates (object::new is a fresh-id counter).
MaxObjects == 8
\* Most escrow records the model creates, live or claimed.
MaxRecords == 2
\* The chain clock runs from 0 to MaxTime.
MaxTime == 1
\* Longest recipients / amounts vector handed to batch_send_token.
MaxBatch == 2
\* u64 is modelled at a reduced width (TLC's integers are 32 bit): the largest
\* value a u64 holds here.  Checked arithmetic aborts above it.
U64_MAX == 65535

\* ---------------------------------------------------------- constants
FEE_BPS == 50
BPS_DENOMINATOR == 10000

\* Abort codes of escrow.move and of the batch module, by name.
ENotReadyYet == "ENotReadyYet"
ENotRecipient == "ENotRecipient"
EInsufficientPayment == "EInsufficientPayment"
ELengthMismatch == "ELengthMismatch"
EInsufficientBalance == "EInsufficientBalance"
\* Move's checked u64 arithmetic aborts the transaction on overflow.
ArithmeticError == "ArithmeticError"
\* A transaction whose input object id does not resolve to a live object of
\* the parameter's type never runs the entry function.
InputUnavailable == "InputUnavailable"
OK == "OK"

Addr == {"a1", "a2", "a3"}
\* The address that published the package (tx_context::sender of init).
Publisher == "a3"
\* Coin types.  The escrowed coin type T ranges over Assets; the PaymentCoin
\* type parameter of the escrow module is instantiated with PaymentCoin.
Assets == {"SUI", "USDC"}
PaymentCoin == "USDC"

\* Values the callers draw u64 arguments from: prices, and unlock times (0 is
\* "no time gate").
Prices == {0, 100, 200}
Times == {0, 1}
\* Arguments of batch_send_token among the escrow transactions.
BatchAmounts == {200}
BatchRecipients == {"a2"}
WideRecipients == {"a1", "a3"}
\* Arguments of batch_send_token on its own: zero, the smallest amount,
\* amounts below and at the first fee step (200 units; two of them reach the
\* second, 400), and an amount whose product with FEE_BPS, and whose sum with
\* itself, leaves u64.
\* The recipients include the payer of the larger coins and config.owner.
WideAmounts == {0, 1, 100, 200, 40000}

VARIABLES
    coins,      \* live Coin<T> objects: id -> [owner, asset, value]
    nfts,       \* address-owned NFT objects: id -> owner
    escrows,    \* live shared CoinEscrow / NftEscrow objects: id -> record
    config,     \* the shared ServiceConfig: [id, owner]
    now,        \* clock::timestamp_ms
    events,     \* the event log, in emission order
    nextId,     \* the next id object::new hands out
    result      \* the last transaction: its call and its outcome

vars == <<coins, nfts, escrows, config, now, events, nextId, result>>
ledger == <<coins, nfts, escrows, config, events, nextId>>

\* ------------------------------------------------------------ helpers
\* All sequences over S of length at most n.
SeqUpTo(S, n) == UNION {[1..k -> S] : k \in 0..n}

\* f with key k removed.
Without(f, k) == [x \in DOMAIN f \ {k} |-> f[x]]

RECURSIVE SumOf(_, _)
\* Sum of f[x] over the finite set S.
SumOf(f, S) ==
    IF S = {} THEN 0
    ELSE LET x == CHOOSE y \in S : TRUE IN f[x] + SumOf(f, S \ {x})

\* Total value of the coins of type `asset` that `addr` owns in the coin table cs.
BalanceIn(cs, addr, asset) ==
    SumOf([c \in DOMAIN cs |-> cs[c].value],
          {c \in DOMAIN cs : cs[c].owner = addr /\ cs[c].asset = asset})

\* Total value of `asset` held inside live coin escrows es.
EscrowedIn(es, asset) ==
    SumOf([e \in DOMAIN es |-> es[e].balance],
          {e \in DOMAIN es : es[e].kind = "coin" /\ es[e].asset = asset})

\* coin::split(&mut c, amount): c loses amount; a new coin `fresh` of that
\* value, same type, is created and transferred to `to`.
SplitTo(cs, c, amount, fresh, to) ==
    [x \in DOMAIN cs \cup {fresh} |->
        IF x = fresh THEN [owner |-> to, asset |-> cs[c].asset, value |-> amount]
        ELSE IF x = c THEN [cs[c] EXCEPT !.value = @ - amount]
        ELSE cs[x]]

\* No transaction is being observed.
NoReceipt == [op |-> "none"]
Idle == result = NoReceipt

\* Ids of the escrow records created so far, live or not (from the lock events).
EscrowIds ==
    {events[i].escrow_id : i \in {j \in DOMAIN events :
        events[j].type \in {"CoinLockEvent", "NftLockEvent"}}}

\* Ids of the escrow records claimed so far (from the claim events).
ClaimedIds ==
    {events[i].escrow_id : i \in {j \in DOMAIN events :
        events[j].type \in {"CoinClaimEvent", "NftClaimEvent"}}}

\* ------------------------------------------------------------- init
\* init(ctx) of the batch module, run once when the package is published by
\* `publisher`: the ServiceConfig it shares, the first object created.
init(publisher) == [id |-> 1, owner |-> publisher]

\* The ledger after the package is published: init has created and shared the
\* ServiceConfig (object 1); the addresses hold some coins and one NFT.
Init ==
    /\ config = init(Publisher)
    /\ coins = (2 :> [owner |-> "a1", asset |-> "USDC", value |-> 500])
            @@ (3 :> [owner |-> "a1", asset |-> "SUI", value |-> 1000])
            @@ (4 :> [owner |-> "a2", asset |-> "USDC", value |-> 100])
    /\ nfts = (5 :> "a1")
    /\ escrows = <<>>
    /\ now = 0
    /\ events = <<>>
    /\ nextId = 6
    /\ result = NoReceipt

\* The consensus clock advances; it never goes back.
Tick ==
    /\ now < MaxTime
    /\ now' = now + 1
    /\ UNCHANGED <<ledger, result>>

\* The receipt of the last transaction is taken; the next one may start.
NextTransaction ==
    /\ ~Idle
    /\ result' = NoReceipt
    /\ UNCHANGED <<ledger, now>>

\* ----------------------------------------------------------- escrow
\* Variant of NewObjectId: the id of a deleted record is handed out again.
NewObjectIdRecycled ==
    IF ClaimedIds # {} THEN CHOOSE e \in ClaimedIds : TRUE ELSE nextId

\* object::new(ctx) in lock_coin and lock_nft: an id no object has had.
NewObjectId == nextId

\* Variant of LockAbortCode: the lock validates its arguments (a recipient
\* other than the sender, a non-zero value, an unlock time not in the past).
LockAbortCodeValidating(sender, recipient, value, unlock_time, time) ==
    IF recipient = sender THEN ENotRecipient
    ELSE IF value = 0 THEN EInsufficientPayment
    ELSE IF unlock_time < time THEN ENotReadyYet
    ELSE OK

\* How lock_coin and lock_nft end before they create the record: they assert
\* nothing about the sender, the recipient, the value locked (1 for an NFT),
\* the price or the unlock time.
LockAbortCode(sender, recipient, value, unlock_time, time) == OK

\* Variant of NewCoinEscrow: creator and recipient change places.
NewCoinEscrowSwapped(coin, sender, recipient, price, unlock_time) ==
    [kind |-> "coin", asset |-> coin.asset, balance |-> coin.value,
     creator |-> recipient, recipient |-> sender,
     price |-> price, unlock_time |-> unlock_time]

\* The CoinEscrow<T, PaymentCoin> that lock_coin packs: the whole balance of
\* the coin, the sender as creator, the arguments as they are.
NewCoinEscrow(coin, sender, recipient, price, unlock_time) ==
    [kind |-> "coin", asset |-> coin.asset, balance |-> coin.value,
     creator |-> sender, recipient |-> recipient,
     price |-> price, unlock_time |-> unlock_time]

\* Variant of CoinLockEvent: amount and price change places.
CoinLockEventMixed(escrow_id, sender, recipient, amount, price, unlock_time) ==
    [type |-> "CoinLockEvent", escrow_id |-> escrow_id,
     creator |-> sender, recipient |-> recipient, amount |-> price,
     price |-> amount, unlock_time |-> unlock_time]

\* The CoinLockEvent lock_coin emits.
CoinLockEvent(escrow_id, sender, recipient, amount, price, unlock_time) ==
    [type |-> "CoinLockEvent", escrow_id |-> escrow_id,
     creator |-> sender, recipient |-> recipient, amount |-> amount,
     price |-> price, unlock_time |-> unlock_time]

\* lock_coin<T, PaymentCoin>(coin, recipient, price, unlock_time): the sender
\* is the owner of the coin passed by value.
lock_coin(c, recipient, price, unlock_time) ==
    /\ c \in DOMAIN coins
    /\ nextId <= MaxObjects /\ Cardinality(EscrowIds) < MaxRecords
    /\ LET sender == coins[c].owner
           amount == coins[c].value
           escrow_id == NewObjectId
           call == [op |-> "lock_coin", sender |-> sender, coin |-> c,
                    recipient |-> recipient, price |-> price,
                    unlock_time |-> unlock_time]
           code == LockAbortCode(sender, recipient, amount, unlock_time, now)
       IN IF code # OK
          THEN /\ result' = call @@ [status |-> code]
               /\ UNCHANGED <<ledger, now>>
          ELSE /\ escrows' = escrows @@ (escrow_id :>
                      NewCoinEscrow(coins[c], sender, recipient, price,
                                    unlock_time))
               /\ coins' = Without(coins, c)
               /\ events' = Append(events,
                      CoinLockEvent(escrow_id, sender, recipient, amount,
                                    price, unlock_time))
               /\ nextId' = nextId + 1
               /\ result' = call @@ [escrow |-> escrow_id, status |-> OK]
               /\ UNCHANGED <<nfts, config, now>>

\* Variants of ClaimAbortCode with one assertion missing.
ClaimAbortCodeNoAuth(sender, time, payValue, esc) ==
    IF ~(time >= esc.unlock_time) THEN ENotReadyYet
    ELSE IF ~(payValue >= esc.price) THEN EInsufficientPayment
    ELSE OK

ClaimAbortCodeNoTime(sender, time, payValue, esc) ==
    IF sender # esc.recipient THEN ENotRecipient
    ELSE IF ~(payValue >= esc.price) THEN EInsufficientPayment
    ELSE OK

ClaimAbortCodeNoPay(sender, time, payValue, esc) ==
    IF sender # esc.recipient THEN ENotRecipient
    ELSE IF ~(time >= esc.unlock_time) THEN ENotReadyYet
    ELSE OK

\* Variant of ClaimAbortCode: the time and payment comparisons are strict.
ClaimAbortCodeStrict(sender, time, payValue, esc) ==
    IF sender # esc.recipient THEN ENotRecipient
    ELSE IF ~(time > esc.unlock_time) THEN ENotReadyYet
    ELSE IF ~(payValue > esc.price) THEN EInsufficientPayment
    ELSE OK

\* Variant of ClaimAbortCode: the assertions in the opposite order.
ClaimAbortCodeReversed(sender, time, payValue, esc) ==
    IF ~(payValue >= esc.price) THEN EInsufficientPayment
    ELSE IF ~(time >= esc.unlock_time) THEN ENotReadyYet
    ELSE IF sender # esc.recipient THEN ENotRecipient
    ELSE OK

\* Variant of ClaimAbortCode: the record can only be claimed at its unlock
\* time, not after it.
ClaimAbortCodeExpiring(sender, time, payValue, esc) ==
    IF sender # esc.recipient THEN ENotRecipient
    ELSE IF ~(time = esc.unlock_time) THEN ENotReadyYet
    ELSE IF ~(payValue >= esc.price) THEN EInsufficientPayment
    ELSE OK

\* The three assertions at the head of claim_coin and claim_nft, in order.
ClaimAbortCode(sender, time, payValue, esc) ==
    IF sender # esc.recipient THEN ENotRecipient
    ELSE IF ~(time >= esc.unlock_time) THEN ENotReadyYet
    ELSE IF ~(payValue >= esc.price) THEN EInsufficientPayment
    ELSE OK

\* Variant of CoinClaimEvent: the creator is reported as the claimer.
CoinClaimEventByCreator(e, sender, esc) ==
    [type |-> "CoinClaimEvent", escrow_id |-> e, claimer |-> esc.creator,
     amount |-> esc.balance, price |-> esc.price]

\* The CoinClaimEvent claim_coin emits for record e, whose fields were esc.
CoinClaimEvent(e, sender, esc) ==
    [type |-> "CoinClaimEvent", escrow_id |-> e, claimer |-> sender,
     amount |-> esc.balance, price |-> esc.price]

\* The NftClaimEvent claim_nft emits for record e, whose fields were esc.
NftClaimEvent(e, sender, esc) ==
    [type |-> "NftClaimEvent", escrow_id |-> e, nft_id |-> esc.item,
     claimer |-> sender, price |-> esc.price]

\* Variant of EscrowsAfterClaim: the record is read but not consumed.
EscrowsAfterClaimKept(e) == escrows

\* Variant of EscrowsAfterClaim: a claim of a coin escrow empties the record
\* and leaves it shared.
EscrowsAfterClaimPartial(e) ==
    IF escrows[e].kind = "coin"
    THEN [escrows EXCEPT ![e].balance = 0]
    ELSE Without(escrows, e)

\* The escrow table once record e is unpacked and its UID deleted.
EscrowsAfterClaim(e) == Without(escrows, e)

\* Variant of CoinsAfterClaimCoin: the whole payment coin goes to the creator,
\* no change is returned.
CoinsAfterClaimCoinNoChange(e, p) ==
    LET esc == escrows[e]
        sender == coins[p].owner
    IN [coins EXCEPT ![p].owner = esc.creator] @@ (nextId + 1 :>
           [owner |-> sender, asset |-> esc.asset, value |-> esc.balance])

\* The coin table after a successful claim_coin of record e paid with coin p:
\* `price` split out of the payment to the creator (a new coin), the payment
\* itself back to the sender, the escrowed balance as a new coin to the sender.
CoinsAfterClaimCoin(e, p) ==
    LET esc == escrows[e]
        sender == coins[p].owner
        paid == SplitTo(coins, p, esc.price, nextId, esc.creator)
    IN paid @@ (nextId + 1 :>
           [owner |-> sender, asset |-> esc.asset, value |-> esc.balance])

\* claim_coin<T, PaymentCoin>(escrow, payment, clock): the sender is the owner
\* of the payment coin.
claim_coin(e, p) ==
    /\ p \in DOMAIN coins /\ coins[p].asset = PaymentCoin
    /\ e \in EscrowIds
    /\ LET sender == coins[p].owner
           call == [op |-> "claim_coin", sender |-> sender, escrow |-> e,
                    payment |-> p]
       IN IF ~(e \in DOMAIN escrows /\ escrows[e].kind = "coin")
          THEN /\ result' = call @@ [status |-> InputUnavailable]
               /\ UNCHANGED <<ledger, now>>
          ELSE LET code == ClaimAbortCode(sender, now, coins[p].value, escrows[e])
               IN IF code # OK
                  THEN /\ result' = call @@ [status |-> code]
                       /\ UNCHANGED <<ledger, now>>
                  ELSE /\ nextId + 1 <= MaxObjects
                       /\ escrows' = EscrowsAfterClaim(e)
                       /\ coins' = CoinsAfterClaimCoin(e, p)
                       /\ events' = Append(events,
                              CoinClaimEvent(e, sender, escrows[e]))
                       /\ nextId' = nextId + 2
                       /\ result' = call @@ [status |-> OK]
                       /\ UNCHANGED <<nfts, config, now>>

\* The NftEscrow<T, PaymentCoin> that lock_nft packs around item n.
NewNftEscrow(n, sender, recipient, price, unlock_time) ==
    [kind |-> "nft", item |-> n,
     creator |-> sender, recipient |-> recipient,
     price |-> price, unlock_time |-> unlock_time]

\* The NftLockEvent lock_nft emits.
NftLockEvent(escrow_id, n, sender, recipient, price, unlock_time) ==
    [type |-> "NftLockEvent", escrow_id |-> escrow_id, nft_id |-> n,
     creator |-> sender, recipient |-> recipient,
     price |-> price, unlock_time |-> unlock_time]

\* lock_nft<T, PaymentCoin>(item, recipient, price, unlock_time): the sender
\* is the owner of the NFT passed by value.
lock_nft(n, recipient, price, unlock_time) ==
    /\ n \in DOMAIN nfts
    /\ nextId <= MaxObjects /\ Cardinality(EscrowIds) < MaxRecords
    /\ LET sender == nfts[n]
           escrow_id == NewObjectId
           call == [op |-> "lock_nft", sender |-> sender, nft |-> n,
                    recipient |-> recipient, price |-> price,
                    unlock_time |-> unlock_time]
           code == LockAbortCode(sender, recipient, 1, unlock_time, now)
       IN IF code # OK
          THEN /\ result' = call @@ [status |-> code]
               /\ UNCHANGED <<ledger, now>>
          ELSE /\ escrows' = escrows @@ (escrow_id :>
                      NewNftEscrow(n, sender, recipient, price, unlock_time))
               /\ nfts' = Without(nfts, n)
               /\ events' = Append(events,
                      NftLockEvent(escrow_id, n, sender, recipient, price,
                                   unlock_time))
               /\ nextId' = nextId + 1
               /\ result' = call @@ [escrow |-> escrow_id, status |-> OK]
               /\ UNCHANGED <<coins, config, now>>

\* The coin table after a successful claim_nft of record e paid with coin p.
CoinsAfterClaimNft(e, p) ==
    SplitTo(coins, p, escrows[e].price, nextId, escrows[e].creator)

\* The NFT table after a successful claim_nft of record e by `sender`.
NftsAfterClaimNft(e, sender) == nfts @@ (escrows[e].item :> sender)

\* claim_nft<T, PaymentCoin>(escrow, payment, clock).
claim_nft(e, p) ==
    /\ p \in DOMAIN coins /\ coins[p].asset = PaymentCoin
    /\ e \in EscrowIds
    /\ LET sender == coins[p].owner
           call == [op |-> "claim_nft", sender |-> sender, escrow |-> e,
                    payment |-> p]
       IN IF ~(e \in DOMAIN escrows /\ escrows[e].kind = "nft")
          THEN /\ result' = call @@ [status |-> InputUnavailable]
               /\ UNCHANGED <<ledger, now>>
          ELSE LET code == ClaimAbortCode(sender, now, coins[p].value, escrows[e])
               IN IF code # OK
                  THEN /\ result' = call @@ [status |-> code]
                       /\ UNCHANGED <<ledger, now>>
                  ELSE /\ nextId <= MaxObjects
                       /\ escrows' = EscrowsAfterClaim(e)
                       /\ coins' = CoinsAfterClaimNft(e, p)
                       /\ nfts' = NftsAfterClaimNft(e, sender)
                       /\ events' = Append(events,
                              NftClaimEvent(e, sender, escrows[e]))
                       /\ nextId' = nextId + 1
                       /\ result' = call @@ [status |-> OK]
                       /\ UNCHANGED <<config, now>>

\* The ledger as one value, for the transactions taken as functions of it.
Ledger ==
    [coins |-> coins, nfts |-> nfts, escrows |-> escrows, events |-> events,
     nextId |-> nextId]

\* Variant of ClaimOutcome: a successful claim also raises the price of every
\* other live record by its own price.
ClaimOutcomeRepricing(L, e, p, time) ==
    LET esc == L.escrows[e]
        code == ClaimAbortCode(L.coins[p].owner, time, L.coins[p].value, esc)
    IN IF code # OK THEN [status |-> code, ledger |-> L]
       ELSE [status |-> OK,
             ledger |-> [L EXCEPT !.escrows =
                            [x \in DOMAIN L.escrows \ {e} |->
                                [L.escrows[x] EXCEPT !.price = @ + esc.price + 1]]]]

\* claim_coin / claim_nft as a function of the ledger L: the claim of the
\* live record e paid with coin p at chain time `time` gives the abort code
\* and the ledger as it was, or OK and the ledger after the transfers.
ClaimOutcome(L, e, p, time) ==
    LET esc == L.escrows[e]
        sender == L.coins[p].owner
        code == ClaimAbortCode(sender, time, L.coins[p].value, esc)
        paid == SplitTo(L.coins, p, esc.price, L.nextId, esc.creator)
    IN IF code # OK THEN [status |-> code, ledger |-> L]
       ELSE IF esc.kind = "coin"
       THEN [status |-> OK,
             ledger |->
                [coins |-> paid @@ (L.nextId + 1 :>
                              [owner |-> sender, asset |-> esc.asset,
                               value |-> esc.balance]),
                 nfts |-> L.nfts,
                 escrows |-> Without(L.escrows, e),
                 events |-> Append(L.events, CoinClaimEvent(e, sender, esc)),
                 nextId |-> L.nextId + 2]]
       ELSE [status |-> OK,
             ledger |->
                [coins |-> paid,
                 nfts |-> L.nfts @@ (esc.item :> sender),
                 escrows |-> Without(L.escrows, e),
                 events |-> Append(L.events, NftClaimEvent(e, sender, esc)),
                 nextId |-> L.nextId + 1]]

\* ------------------------------------------------------------ batch
\* What the checked u64 arithmetic yields when it overflows: the abort.
Overflow == -1

RECURSIVE TotalLoop(_, _, _, _)
\* The summing loop of batch_send_token over the first `len` amounts, from
\* index i (1-based) with running total `total`: the sum, or Overflow as soon
\* as an addition exceeds u64.
TotalLoop(amounts, len, i, total) ==
    IF i > len THEN total
    ELSE IF total + amounts[i] > U64_MAX THEN Overflow
    ELSE TotalLoop(amounts, len, i + 1, total + amounts[i])

\* total_amount_to_send; len is the length of recipients, which the length
\* assertion has made the length of amounts.
TotalAmount(amounts) == TotalLoop(amounts, Len(amounts), 1, 0)

\* Variant of FeeAmount without the minimum of one unit.
FeeAmountNoMin(total) == (total * FEE_BPS) \div BPS_DENOMINATOR

\* Variant of FeeAmount: the minimum of one unit is charged on a total of 0
\* too.
FeeAmountAlwaysMin(total) ==
    LET fee == (total * FEE_BPS) \div BPS_DENOMINATOR
    IN IF fee = 0 THEN 1 ELSE fee

\* fee_amount for a total whose product with FEE_BPS fits in u64.
FeeAmount(total) ==
    LET fee == (total * FEE_BPS) \div BPS_DENOMINATOR
    IN IF fee = 0 /\ total > 0 THEN 1 ELSE fee

\* Variant of BatchAbortCode: the balance assertion leaves the fee out.
BatchAbortCodeNoFee(payValue, recipients, amounts) ==
    IF Len(recipients) # Len(amounts) THEN ELengthMismatch
    ELSE LET total == TotalAmount(amounts)
         IN IF total = Overflow THEN ArithmeticError
            ELSE IF total * FEE_BPS > U64_MAX THEN ArithmeticError
            ELSE IF total + FeeAmount(total) > U64_MAX THEN ArithmeticError
            ELSE IF ~(payValue >= total) THEN EInsufficientBalance
            ELSE OK

\* Variant of BatchAbortCode: the length assertion only rejects a recipients
\* vector longer than amounts.
BatchAbortCodeLenLE(payValue, recipients, amounts) ==
    IF Len(recipients) > Len(amounts) THEN ELengthMismatch
    ELSE LET total == TotalLoop(amounts, Len(recipients), 1, 0)
         IN IF total = Overflow THEN ArithmeticError
            ELSE IF total * FEE_BPS > U64_MAX THEN ArithmeticError
            ELSE IF total + FeeAmount(total) > U64_MAX THEN ArithmeticError
            ELSE IF ~(payValue >= total + FeeAmount(total))
                 THEN EInsufficientBalance
            ELSE OK

RECURSIVE TotalLoopWrapping(_, _, _, _)
\* Variant of TotalLoop whose additions wrap around at the width of u64.
TotalLoopWrapping(amounts, len, i, total) ==
    IF i > len THEN total
    ELSE TotalLoopWrapping(amounts, len, i + 1,
                           (total + amounts[i]) % (U64_MAX + 1))

\* Variant of BatchAbortCode with wrapping arithmetic: the sum, the fee
\* product and total + fee are taken modulo the width of u64.
BatchAbortCodeWrapping(payValue, recipients, amounts) ==
    IF Len(recipients) # Len(amounts) THEN ELengthMismatch
    ELSE LET total == TotalLoopWrapping(amounts, Len(amounts), 1, 0)
             raw == ((total * FEE_BPS) % (U64_MAX + 1)) \div BPS_DENOMINATOR
             fee == IF raw = 0 /\ total > 0 THEN 1 ELSE raw
         IN IF ~(payValue >= (total + fee) % (U64_MAX + 1))
            THEN EInsufficientBalance
            ELSE OK

\* Variant of BatchAbortCode: the length assertion comes after the sum, the
\* fee and the balance assertion.
BatchAbortCodeLengthLast(payValue, recipients, amounts) ==
    LET total == TotalAmount(amounts)
    IN IF total = Overflow THEN ArithmeticError
       ELSE IF total * FEE_BPS > U64_MAX THEN ArithmeticError
       ELSE IF total + FeeAmount(total) > U64_MAX THEN ArithmeticError
       ELSE IF ~(payValue >= total + FeeAmount(total))
            THEN EInsufficientBalance
       ELSE IF Len(recipients) # Len(amounts) THEN ELengthMismatch
       ELSE OK

\* How batch_send_token ends before it transfers anything: the length
\* assertion, the sum, the fee product, the sum total + fee, the balance
\* assertion, in the order of the code.
BatchAbortCode(payValue, recipients, amounts) ==
    IF Len(recipients) # Len(amounts) THEN ELengthMismatch
    ELSE LET total == TotalAmount(amounts)
         IN IF total = Overflow THEN ArithmeticError
            ELSE IF total * FEE_BPS > U64_MAX THEN ArithmeticError
            ELSE IF total + FeeAmount(total) > U64_MAX THEN ArithmeticError
            ELSE IF ~(payValue >= total + FeeAmount(total))
                 THEN EInsufficientBalance
            ELSE OK

RECURSIVE SendLoopReversed(_, _, _, _, _, _)
\* Variant of SendLoop: the amounts are paid out to the recipients taken from
\* the end of the vector.
SendLoopReversed(cs, p, recipients, amounts, i, id) ==
    IF i > Len(recipients) THEN cs
    ELSE SendLoopReversed(
             SplitTo(cs, p, amounts[i], id,
                     recipients[Len(recipients) + 1 - i]),
             p, recipients, amounts, i + 1, id + 1)

RECURSIVE SendLoop(_, _, _, _, _, _)
\* The distribution loop from index i: amounts[i] split out of payment p into
\* the new coin id + i - 1, transferred to recipients[i].
SendLoop(cs, p, recipients, amounts, i, id) ==
    IF i > Len(recipients) THEN cs
    ELSE SendLoop(SplitTo(cs, p, amounts[i], id, recipients[i]),
                  p, recipients, amounts, i + 1, id + 1)

\* Variant of CoinsAfterBatch: the fee coin is created without being split
\* out of the payment.
CoinsAfterBatchFeeMinted(p, recipients, amounts) ==
    LET fee == FeeAmount(TotalAmount(amounts))
    IN SendLoop(coins @@ (nextId :> [owner |-> config.owner,
                                     asset |-> coins[p].asset, value |-> fee]),
                p, recipients, amounts, 1, nextId + 1)

\* The coin table after a successful batch_send_token: the fee coin to
\* config.owner first, then the recipients in input order.
CoinsAfterBatch(p, recipients, amounts) ==
    LET fee == FeeAmount(TotalAmount(amounts))
    IN SendLoop(SplitTo(coins, p, fee, nextId, config.owner),
                p, recipients, amounts, 1, nextId + 1)

\* Variant of EventsAfterBatch: one event per recipient, each with the
\* aggregate figures.
EventsAfterBatchPerRecipient(sender, recipients, amounts) ==
    events \o [i \in 1..Len(recipients) |->
                  [type |-> "BatchTokenEvent", sender |-> sender,
                   recipient_count |-> Len(recipients),
                   total_amount |-> TotalAmount(amounts),
                   fee_amount |-> FeeAmount(TotalAmount(amounts))]]

\* The event log after a successful batch_send_token by `sender`: the one
\* BatchTokenEvent emitted after the distribution loop.
EventsAfterBatch(sender, recipients, amounts) ==
    Append(events,
           [type |-> "BatchTokenEvent", sender |-> sender,
            recipient_count |-> Len(recipients),
            total_amount |-> TotalAmount(amounts),
            fee_amount |-> FeeAmount(TotalAmount(amounts))])

\* Variant of ConfigAfterBatch: the payer of a batch becomes the fee owner.
ConfigAfterBatchTaken(sender) == [config EXCEPT !.owner = sender]

\* The ServiceConfig after batch_send_token: it is borrowed immutably.
ConfigAfterBatch(sender) == config

\* batch_send_token<T>(config, payment, recipients, amounts): the sender is
\* the owner of the payment coin, passed by mutable reference.
batch_send_token(p, recipients, amounts) ==
    /\ p \in DOMAIN coins
    /\ LET sender == coins[p].owner
           call == [op |-> "batch_send_token", sender |-> sender,
                    payment |-> p, recipients |-> recipients,
                    amounts |-> amounts]
           code == BatchAbortCode(coins[p].value, recipients, amounts)
       IN IF code # OK
          THEN /\ result' = call @@ [status |-> code]
               /\ UNCHANGED <<ledger, now>>
          ELSE /\ nextId + Len(recipients) <= MaxObjects
               /\ coins' = CoinsAfterBatch(p, recipients, amounts)
               /\ events' = EventsAfterBatch(sender, recipients, amounts)
               /\ nextId' = nextId + Len(recipients) + 1
               /\ config' = ConfigAfterBatch(sender)
               /\ result' = call @@ [status |-> OK]
               /\ UNCHANGED <<nfts, escrows, now>>

\* ------------------------------------------------------- transactions
\* batch_send_token for every choice of arguments among the given ones.
BatchCall(recipientSet, amountSet) ==
    \E p \in DOMAIN coins, rs \in SeqUpTo(recipientSet, MaxBatch),
       am \in SeqUpTo(amountSet, MaxBatch) :
        batch_send_token(p, rs, am)

\* One transaction of each entry function, for every choice of arguments.
ClockTick == Idle /\ Tick

LockCoin ==
    Idle /\ \E c \in DOMAIN coins, r \in Addr, pr \in Prices, t \in Times :
                lock_coin(c, r, pr, t)

ClaimCoin == Idle /\ \E e \in EscrowIds, p \in DOMAIN coins : claim_coin(e, p)

LockNft ==
    Idle /\ \E n \in DOMAIN nfts, r \in Addr, pr \in Prices, t \in Times :
                lock_nft(n, r, pr, t)

ClaimNft == Idle /\ \E e \in EscrowIds, p \in DOMAIN coins : claim_nft(e, p)

BatchSend == Idle /\ BatchCall(BatchRecipients, BatchAmounts)

BatchSendWide == Idle /\ BatchCall(WideRecipients, WideAmounts)

Next ==
    \/ NextTransaction
    \/ ClockTick
    \/ LockCoin
    \/ ClaimCoin
    \/ LockNft
    \/ ClaimNft
    \/ BatchSend

Spec == Init /\ [][Next]_vars

\* Batch payouts alone, over the wider argument sets.
NextBatch ==
    \/ NextTransaction
    \/ BatchSendWide

SpecBatch == Init /\ [][NextBatch]_vars

\* ------------------------------------------------------- properties
\* Sum of the elements of a sequence of numbers.
RECURSIVE SumSeq(_)
SumSeq(q) == IF q = <<>> THEN 0 ELSE Head(q) + SumSeq(Tail(q))

MaxOf(a, b) == IF a >= b THEN a ELSE b

\* The receipt r is that of a claim / of a batch payout.
IsClaim(r) == r.op \in {"claim_coin", "claim_nft"}
IsBatch(r) == r.op = "batch_send_token"
ClaimKind(r) == IF r.op = "claim_coin" THEN "coin" ELSE "nft"

\* The receipt r is that of a claim executed against a live record of the
\* escrow table es.
ClaimOn(r, es) ==
    /\ IsClaim(r)
    /\ r.escrow \in DOMAIN es
    /\ es[r.escrow].kind = ClaimKind(r)

\* The last event emitted.
LastEvent == events[Len(events)]

\* C1. Single-claim: once a record has been claimed it no longer exists, and
\* no later claim against its id succeeds, whatever transactions are run.
C1_SingleClaim ==
    [][\A e \in ClaimedIds' :
          /\ e \notin DOMAIN escrows'
          /\ e \in ClaimedIds =>
                ~(IsClaim(result') /\ result'.escrow = e /\ result'.status = OK)
      ]_vars

\* A second claim against the id of a claimed coin escrow was attempted and
\* did not run.
C1_Witness ==
    /\ result.op = "claim_coin"
    /\ result.escrow \in ClaimedIds
    /\ result.status = InputUnavailable
    /\ \E i \in DOMAIN events : /\ events[i].type = "CoinClaimEvent"
                                /\ events[i].escrow_id = result.escrow

\* C2. Authorization: a claim whose sender is not the record's recipient
\* aborts with ENotRecipient, whatever the time and the payment.
C2_Authorization ==
    [][(ClaimOn(result', escrows)
          /\ result'.sender # escrows[result'.escrow].recipient)
        => result'.status = ENotRecipient]_vars

\* The creator of a record, who is not its recipient, claimed it at a time
\* past the unlock time with a sufficient payment, and got ENotRecipient.
C2_Witness ==
    /\ ClaimOn(result, escrows)
    /\ result.status = ENotRecipient
    /\ LET esc == escrows[result.escrow]
       IN /\ result.sender = esc.creator
          /\ now >= esc.unlock_time
          /\ esc.unlock_time > 0
          /\ coins[result.payment].value >= esc.price
          /\ esc.price > 0

\* C3 as stated: every claim made before unlock_time aborts with
\* ENotReadyYet.
C3_AsStated ==
    [][(ClaimOn(result', escrows)
          /\ now < escrows[result'.escrow].unlock_time)
        => result'.status = ENotReadyYet]_vars

\* C3. Time-gate: a claim made before unlock_time always aborts: with
\* ENotReadyYet when the sender is the recipient, whatever the payment, and
\* with ENotRecipient when the sender is anyone else.
C3_TimeGate ==
    [][(ClaimOn(result', escrows)
          /\ now < escrows[result'.escrow].unlock_time)
        => result'.status =
              IF result'.sender = escrows[result'.escrow].recipient
              THEN ENotReadyYet ELSE ENotRecipient]_vars

\* The recipient claimed before unlock_time with a sufficient payment and got
\* ENotReadyYet.
C3_Witness ==
    /\ ClaimOn(result, escrows)
    /\ result.status = ENotReadyYet
    /\ LET esc == escrows[result.escrow]
       IN /\ result.sender = esc.recipient
          /\ now < esc.unlock_time
          /\ coins[result.payment].value >= esc.price
          /\ esc.price > 0

\* C4. A claim by the recipient at or after unlock_time with a payment below
\* the price aborts with EInsufficientPayment.
C4_InsufficientPayment ==
    [][(ClaimOn(result', escrows)
          /\ result'.sender = escrows[result'.escrow].recipient
          /\ now >= escrows[result'.escrow].unlock_time
          /\ coins[result'.payment].value < escrows[result'.escrow].price)
        => result'.status = EInsufficientPayment]_vars

\* The recipient claimed a coin escrow past a non-zero unlock time with a
\* non-zero payment below the price.
C4_Witness ==
    /\ ClaimOn(result, escrows)
    /\ result.op = "claim_coin"
    /\ result.status = EInsufficientPayment
    /\ LET esc == escrows[result.escrow]
       IN /\ result.sender = esc.recipient
          /\ now >= esc.unlock_time
          /\ esc.unlock_time > 0
          /\ coins[result.payment].value < esc.price
          /\ coins[result.payment].value > 0

\* C5. A successful claim is made by the recipient; it moves exactly price
\* from the sender to the creator, leaves the payment coin with the sender
\* holding value - price, moves the whole escrowed balance (or the NFT) to
\* the sender, removes the record, and changes no other balance or NFT.
C5_ClaimEffect ==
    [][(IsClaim(result') /\ result'.status = OK)
        => /\ ClaimOn(result', escrows)
           /\ LET e == result'.escrow
                  p == result'.payment
                  s == result'.sender
                  esc == escrows[e]
                  isCoin == esc.kind = "coin"
              IN /\ s = esc.recipient
                 /\ p \in DOMAIN coins'
                 /\ coins'[p].owner = s
                 /\ coins'[p].value = coins[p].value - esc.price
                 /\ \A a \in Addr, t \in Assets :
                       BalanceIn(coins', a, t) =
                           BalanceIn(coins, a, t)
                           + (IF a = esc.creator /\ t = PaymentCoin
                              THEN esc.price ELSE 0)
                           - (IF a = s /\ t = PaymentCoin
                              THEN esc.price ELSE 0)
                           + (IF isCoin /\ a = s /\ t = esc.asset
                              THEN esc.balance ELSE 0)
                 /\ nfts' = IF isCoin THEN nfts ELSE nfts @@ (esc.item :> s)
                 /\ escrows' = Without(escrows, e)
      ]_vars

\* A coin escrow with a non-zero balance and a non-zero price, created by
\* another address, was claimed with a payment above the price: the sender
\* keeps a non-zero change.
C5_Witness ==
    /\ result.op = "claim_coin"
    /\ result.status = OK
    /\ LastEvent.type = "CoinClaimEvent"
    /\ LastEvent.price > 0
    /\ LastEvent.amount > 0
    /\ coins[result.payment].value > 0
    /\ \E i \in DOMAIN events : /\ events[i].type = "CoinLockEvent"
                                /\ events[i].escrow_id = result.escrow
                                /\ events[i].creator # result.sender

\* C6. A claim that violates a precondition (wrong sender, too early, payment
\* below the price) does not succeed and leaves the whole ledger as it was:
\* coins, NFTs, escrow records, config, event log.
C6_AbortNoEffect ==
    [][(ClaimOn(result', escrows)
          /\ LET esc == escrows[result'.escrow]
             IN \/ result'.sender # esc.recipient
                \/ now < esc.unlock_time
                \/ coins[result'.payment].value < esc.price)
        => /\ result'.status # OK
           /\ UNCHANGED ledger]_vars

\* The recipient of an NFT escrow claimed it with too small a payment: the
\* record is still live and the NFT still escrowed.
C6_Witness ==
    /\ ClaimOn(result, escrows)
    /\ result.op = "claim_nft"
    /\ result.status = EInsufficientPayment
    /\ escrows[result.escrow].item \notin DOMAIN nfts
    /\ coins[result.payment].owner = result.sender

\* C7. Batch conservation: after a successful batch_send_token the payment
\* coin holds its former value less the sum of the amounts and the fee paid
\* to config.owner, and still belongs to the sender.
C7_BatchConservation ==
    [][(IsBatch(result') /\ result'.status = OK)
        => LET p == result'.payment
           IN /\ p \in DOMAIN coins'
              /\ coins'[p].owner = result'.sender
              /\ coins'[p].owner = coins[p].owner
              /\ nextId \in DOMAIN coins'
              /\ coins'[nextId].owner = config.owner
              /\ coins[p].value =
                     coins'[p].value + SumSeq(result'.amounts)
                         + coins'[nextId].value
      ]_vars

\* The batch [100, 200] paid from a coin of 500: 199 are left in it.
C7_Witness ==
    /\ IsBatch(result)
    /\ result.status = OK
    /\ result.amounts = <<100, 200>>
    /\ coins[result.payment].value = 199
    /\ coins[result.payment].owner = result.sender

\* C8. Fee formula: the fee a successful batch_send_token pays to
\* config.owner and reports is max(1, floor(total * 50 / 10000)) when the
\* total of the amounts is at least 1, and 0 when the total is 0.
C8_FeeFormula ==
    [][(IsBatch(result') /\ result'.status = OK)
        => LET total == SumSeq(result'.amounts)
               fee == coins'[nextId].value
           IN /\ coins'[nextId].owner = config.owner
              /\ events'[Len(events')].fee_amount = fee
              /\ total >= 1 => fee = MaxOf(1, (total * 50) \div 10000)
              /\ total = 0 => fee = 0
      ]_vars

\* A batch whose total is below 200 units, so that the computed fee rounds
\* down to 0: one unit was charged.
C8_Witness ==
    /\ IsBatch(result)
    /\ result.status = OK
    /\ SumSeq(result.amounts) = 100
    /\ LastEvent.fee_amount = 1

\* C9 as stated: with vectors of equal length and a payment below total + fee,
\* batch_send_token aborts with EInsufficientBalance and has no effect.
C9_AsStated ==
    [][(IsBatch(result')
          /\ Len(result'.recipients) = Len(result'.amounts)
          /\ LET total == SumSeq(result'.amounts)
                 fee == IF total = 0 THEN 0
                        ELSE MaxOf(1, (total * 50) \div 10000)
             IN coins[result'.payment].value < total + fee)
        => /\ result'.status = EInsufficientBalance
           /\ UNCHANGED ledger]_vars

\* C9. Batch balance check: with vectors of equal length and a payment below
\* total + fee, batch_send_token aborts and has no effect; the abort is
\* EInsufficientBalance when total * 50 fits in u64 and the arithmetic
\* overflow abort when it does not.
C9_BalanceCheck ==
    [][(IsBatch(result')
          /\ Len(result'.recipients) = Len(result'.amounts)
          /\ LET total == SumSeq(result'.amounts)
                 fee == IF total = 0 THEN 0
                        ELSE MaxOf(1, (total * 50) \div 10000)
             IN coins[result'.payment].value < total + fee)
        => /\ result'.status =
                 IF SumSeq(result'.amounts) * 50 > U64_MAX
                 THEN ArithmeticError ELSE EInsufficientBalance
           /\ UNCHANGED ledger]_vars

\* A payment that covers the total but not the fee on top of it was refused
\* with EInsufficientBalance.
C9_Witness ==
    /\ IsBatch(result)
    /\ result.status = EInsufficientBalance
    /\ Len(result.amounts) >= 1
    /\ coins[result.payment].value >= SumSeq(result.amounts)
    /\ SumSeq(result.amounts) > 0

\* C10. Batch atomicity on length mismatch: a batch_send_token call whose
\* recipients and amounts differ in length aborts with ELengthMismatch and
\* changes nothing: no transfer, no event, the payment as it was.
C10_LengthMismatch ==
    [][(IsBatch(result')
          /\ Len(result'.recipients) # Len(result'.amounts))
        => /\ result'.status = ELengthMismatch
           /\ UNCHANGED ledger]_vars

\* A call with fewer recipients than amounts, whose payment would have
\* covered the amounts and the fee, was refused with ELengthMismatch.
C10_Witness ==
    /\ IsBatch(result)
    /\ result.status = ELengthMismatch
    /\ Len(result.recipients) = 1
    /\ Len(result.amounts) = 2
    /\ SumSeq(result.amounts) > 0
    /\ coins[result.payment].value >= 2 * SumSeq(result.amounts)

\* C11. A successful batch_send_token creates, in this order, the fee coin for
\* config.owner and then one coin per index i holding exactly amounts[i] for
\* recipients[i]: the coins are created in input order (consecutive fresh
\* ids), a repeated recipient gets one coin per occurrence, and no other coin
\* but the payment changes.
C11_BatchOrder ==
    [][(IsBatch(result') /\ result'.status = OK)
        => LET p == result'.payment
               rs == result'.recipients
               am == result'.amounts
           IN /\ DOMAIN coins' = DOMAIN coins \cup (nextId .. nextId + Len(rs))
              /\ coins'[nextId].owner = config.owner
              /\ coins'[nextId].asset = coins[p].asset
              /\ \A i \in 1..Len(rs) :
                    coins'[nextId + i] =
                        [owner |-> rs[i], asset |-> coins[p].asset,
                         value |-> am[i]]
              /\ \A c \in DOMAIN coins \ {p} : coins'[c] = coins[c]
              /\ \A a \in Addr :
                    Cardinality({c \in DOMAIN coins' \ DOMAIN coins :
                                    c # nextId /\ coins'[c].owner = a})
                        = Cardinality({i \in 1..Len(rs) : rs[i] = a})
      ]_vars

\* A batch that names the same address twice, with different amounts, next to
\* nobody else: that address now owns two new coins, of 100 and of 200.
C11_Witness ==
    /\ IsBatch(result)
    /\ result.status = OK
    /\ result.recipients = <<"a3", "a3">>
    /\ result.amounts = <<100, 200>>
    /\ coins[nextId - 2].value = 100 /\ coins[nextId - 2].owner = "a3"
    /\ coins[nextId - 1].value = 200 /\ coins[nextId - 1].owner = "a3"

\* All the units of `asset` on the ledger: in address-owned coins of the coin
\* table cs and inside the live coin escrows es.
TotalSupply(cs, es, asset) ==
    SumOf([c \in DOMAIN cs |-> cs[c].value],
          {c \in DOMAIN cs : cs[c].asset = asset})
    + EscrowedIn(es, asset)

\* The live NFT escrows of es that hold item n.
NftHolders(es, n) == {e \in DOMAIN es : es[e].kind = "nft" /\ es[e].item = n}

\* The NFTs on the ledger ns, es: address-owned or escrowed.
NftUniverse(ns, es) ==
    DOMAIN ns \cup {es[e].item : e \in {x \in DOMAIN es : es[x].kind = "nft"}}

\* C12. Global conservation: no transaction, successful or aborted, changes
\* the total supply of any coin type (address-owned coins plus live coin
\* escrows) or the set of NFTs, and every NFT is at all times either owned by
\* one address or held by exactly one live NFT escrow, never both.
C12_Conservation ==
    /\ [](\A n \in NftUniverse(nfts, escrows) :
             (IF n \in DOMAIN nfts THEN 1 ELSE 0)
                 + Cardinality(NftHolders(escrows, n)) = 1)
    /\ [][/\ \A t \in Assets :
               TotalSupply(coins', escrows', t) = TotalSupply(coins, escrows, t)
           /\ NftUniverse(nfts', escrows') = NftUniverse(nfts, escrows)
         ]_vars

\* An NFT escrow was claimed by another address than its creator for a
\* non-zero price while a coin escrow with a non-zero balance is live: value
\* sits in a record, in the creator's coins and with the new NFT owner.
C12_Witness ==
    /\ result.op = "claim_nft"
    /\ result.status = OK
    /\ LastEvent.type = "NftClaimEvent"
    /\ LastEvent.price > 0
    /\ nfts[LastEvent.nft_id] = result.sender
    /\ result.sender # "a1"
    /\ \E e \in DOMAIN escrows : escrows[e].kind = "coin" /\ escrows[e].balance > 0

\* C13. No cancel / refund: a live record stays as it is until a successful
\* claim of it by its recipient at or after unlock_time removes it, and the
\* value it held then belongs to the recipient; no transaction takes a record
\* away, or its value out, in any other way.
C13_NoCancel ==
    [][\A e \in DOMAIN escrows :
          IF e \in DOMAIN escrows'
          THEN escrows'[e] = escrows[e]
          ELSE /\ ClaimOn(result', escrows)
               /\ result'.escrow = e
               /\ result'.status = OK
               /\ result'.sender = escrows[e].recipient
               /\ now >= escrows[e].unlock_time
               /\ IF escrows[e].kind = "coin"
                  THEN \E c \in DOMAIN coins' \ DOMAIN coins :
                          coins'[c] = [owner |-> escrows[e].recipient,
                                       asset |-> escrows[e].asset,
                                       value |-> escrows[e].balance]
                  ELSE /\ escrows[e].item \in DOMAIN nfts'
                       /\ nfts'[escrows[e].item] = escrows[e].recipient
      ]_vars

\* The creator of a coin escrow made out to somebody else, with no time gate
\* and no price, tried to claim it back: refused, the record is still live
\* and still holds the balance.
C13_Witness ==
    /\ ClaimOn(result, escrows)
    /\ result.op = "claim_coin"
    /\ result.status = ENotRecipient
    /\ LET esc == escrows[result.escrow]
       IN /\ result.sender = esc.creator
          /\ esc.recipient # esc.creator
          /\ esc.unlock_time = 0
          /\ esc.price = 0
          /\ esc.balance > 0

\* C14. A successful batch_send_token appends exactly one event, a
\* BatchTokenEvent, whatever the number of recipients: its sender is the
\* caller, recipient_count the length of recipients, total_amount the sum of
\* the amounts, fee_amount the value of the fee coin config.owner received.
\* An aborted call appends none.
C14_BatchEvent ==
    [][IsBatch(result')
        => IF result'.status = OK
           THEN /\ Len(events') = Len(events) + 1
                /\ SubSeq(events', 1, Len(events)) = events
                /\ events'[Len(events')] =
                       [type |-> "BatchTokenEvent",
                        sender |-> coins[result'.payment].owner,
                        recipient_count |-> Len(result'.recipients),
                        total_amount |-> SumSeq(result'.amounts),
                        fee_amount |-> coins'[nextId].value]
                /\ coins'[nextId].owner = config.owner
           ELSE events' = events
      ]_vars

\* A batch of two recipients has been paid: the log holds one event, which
\* reports 2 recipients, a total of 300 and a fee of 1.
C14_Witness ==
    /\ IsBatch(result)
    /\ result.status = OK
    /\ Len(result.recipients) = 2
    /\ Len(events) = 1
    /\ LastEvent.type = "BatchTokenEvent"
    /\ LastEvent.sender = result.sender
    /\ LastEvent.recipient_count = 2
    /\ LastEvent.total_amount = 300
    /\ LastEvent.fee_amount = 1

\* The receipt r is that of a lock.
IsLock(r) == r.op \in {"lock_coin", "lock_nft"}

\* C15. A successful lock creates exactly one new live record and touches no
\* other: its creator is the sender, its recipient, price and unlock_time are
\* the arguments, and it holds the whole value passed in (the coin's balance
\* and type, or the item), which the sender no longer owns.
C15_LockCreatesRecord ==
    [][(IsLock(result') /\ result'.status = OK)
        => LET e == result'.escrow
               s == result'.sender
           IN /\ e \notin DOMAIN escrows
              /\ DOMAIN escrows' = DOMAIN escrows \cup {e}
              /\ \A x \in DOMAIN escrows : escrows'[x] = escrows[x]
              /\ escrows'[e].creator = s
              /\ escrows'[e].recipient = result'.recipient
              /\ escrows'[e].price = result'.price
              /\ escrows'[e].unlock_time = result'.unlock_time
              /\ IF result'.op = "lock_coin"
                 THEN LET c == result'.coin
                      IN /\ coins[c].owner = s
                         /\ escrows'[e].kind = "coin"
                         /\ escrows'[e].balance = coins[c].value
                         /\ escrows'[e].asset = coins[c].asset
                         /\ coins' = Without(coins, c)
                         /\ BalanceIn(coins', s, coins[c].asset) =
                                BalanceIn(coins, s, coins[c].asset)
                                    - coins[c].value
                         /\ nfts' = nfts
                 ELSE LET n == result'.nft
                      IN /\ nfts[n] = s
                         /\ escrows'[e].kind = "nft"
                         /\ escrows'[e].item = n
                         /\ nfts' = Without(nfts, n)
                         /\ coins' = coins
      ]_vars

\* a2 locked its coin of 100 for a1 at price 200 with unlock time 1 while
\* another record was already live: a2 owns no coin any more.
C15_Witness ==
    /\ result.op = "lock_coin"
    /\ result.status = OK
    /\ result.sender = "a2"
    /\ result.recipient = "a1"
    /\ result.price = 200
    /\ result.unlock_time = 1
    /\ escrows[result.escrow].balance = 100
    /\ Cardinality(DOMAIN escrows) = 2
    /\ BalanceIn(coins, "a2", "USDC") = 0

\* C16. Lock has no error conditions: every lock_coin and lock_nft call
\* succeeds and leaves its record live, whatever the recipient (the sender
\* included), the value of the coin (zero included), the price (zero
\* included) and the unlock time (one already past included).
C16_LockNoErrors ==
    [][IsLock(result')
        => /\ result'.status = OK
           /\ result'.escrow \in DOMAIN escrows' \ DOMAIN escrows
      ]_vars

\* A coin of value zero was locked by its owner for itself, at price 0, with
\* an unlock time that had already passed.
C16_Witness ==
    /\ result.op = "lock_coin"
    /\ result.status = OK
    /\ result.recipient = result.sender
    /\ result.price = 0
    /\ result.unlock_time < now
    /\ escrows[result.escrow].balance = 0
    /\ escrows[result.escrow].creator = escrows[result.escrow].recipient

\* C17. A successful lock appends exactly one event, the lock event of its
\* kind, whose escrow_id, creator, recipient, amount (or nft_id), price and
\* unlock_time are those of the record the call created and of what it
\* holds.
C17_LockEvent ==
    [][(IsLock(result') /\ result'.status = OK)
        => LET rec == escrows'[result'.escrow]
               ev == events'[Len(events')]
           IN /\ Len(events') = Len(events) + 1
              /\ SubSeq(events', 1, Len(events)) = events
              /\ ev.escrow_id = result'.escrow
              /\ ev.creator = rec.creator
              /\ ev.recipient = rec.recipient
              /\ ev.price = rec.price
              /\ ev.unlock_time = rec.unlock_time
              /\ IF result'.op = "lock_coin"
                 THEN /\ ev.type = "CoinLockEvent"
                      /\ ev.amount = rec.balance
                      /\ ev.amount = coins[result'.coin].value
                 ELSE /\ ev.type = "NftLockEvent"
                      /\ ev.nft_id = rec.item
      ]_vars

\* The second lock of a run, of a coin of 1000 at price 100: the log holds
\* two lock events and the last one reports amount 1000, price 100.
C17_Witness ==
    /\ result.op = "lock_coin"
    /\ result.status = OK
    /\ Len(events) = 2
    /\ events[1].type \in {"CoinLockEvent", "NftLockEvent"}
    /\ LastEvent.type = "CoinLockEvent"
    /\ LastEvent.escrow_id = result.escrow
    /\ LastEvent.amount = 1000
    /\ LastEvent.price = 100
    /\ LastEvent.creator # LastEvent.recipient

\* C18. Record immutability: as long as a record is live, the value it holds
\* (balance and coin type, or item), its creator, recipient, price and
\* unlock_time are what they were, whatever transaction is executed; there
\* is no partial claim: a successful claim takes the record away whole, and
\* every other transaction leaves it live.
C18_RecordImmutable ==
    [][\A e \in DOMAIN escrows :
          /\ e \in DOMAIN escrows' => escrows'[e] = escrows[e]
          /\ e \in DOMAIN escrows' <=>
                ~(IsClaim(result') /\ result'.escrow = e /\ result'.status = OK)
      ]_vars

\* A coin escrow has seen another record locked and claimed and has then
\* refused a claim: it is live and holds the balance its lock event reported.
C18_Witness ==
    /\ ClaimOn(result, escrows)
    /\ result.op = "claim_coin"
    /\ result.status \in {ENotRecipient, ENotReadyYet, EInsufficientPayment}
    /\ Len(events) = 3
    /\ events[1].type = "CoinLockEvent"
    /\ events[1].escrow_id = result.escrow
    /\ events[2].type = "NftLockEvent"
    /\ events[3].type = "NftClaimEvent"
    /\ escrows[result.escrow].balance = events[1].amount
    /\ escrows[result.escrow].balance > 0

\* C19. A claim of a live record by its recipient, at a time at or after
\* unlock_time, with a payment of at least the price, succeeds: equality is
\* enough in both comparisons, so a record with unlock_time 0 and price 0
\* is claimed at once with a payment of value 0.
C19_Claimable ==
    [][(ClaimOn(result', escrows)
          /\ result'.sender = escrows[result'.escrow].recipient
          /\ now >= escrows[result'.escrow].unlock_time
          /\ coins[result'.payment].value >= escrows[result'.escrow].price)
        => /\ result'.status = OK
           /\ result'.escrow \notin DOMAIN escrows'
      ]_vars

\* A record locked with unlock_time 0 and price 0 was claimed at time 0 by
\* its recipient, who is not its creator, with a payment coin of value 0:
\* the recipient owns the item, the creator received a coin of value 0.
C19_Witness ==
    /\ result.op = "claim_nft"
    /\ result.status = OK
    /\ now = 0
    /\ coins[result.payment].value = 0
    /\ LastEvent.type = "NftClaimEvent"
    /\ LastEvent.price = 0
    /\ nfts[LastEvent.nft_id] = result.sender
    /\ \E i \in DOMAIN events :
          /\ events[i].type = "NftLockEvent"
          /\ events[i].escrow_id = result.escrow
          /\ events[i].unlock_time = 0
          /\ events[i].recipient = result.sender
          /\ events[i].creator # result.sender
          /\ coins[nextId - 1] = [owner |-> events[i].creator,
                                  asset |-> PaymentCoin, value |-> 0]

\* C20. The ServiceConfig is the object init created, owned by the address
\* that published the package, in every state: no lock, claim or batch
\* payout, successful or aborted, changes its owner or replaces it.
C20_ConfigSingleton ==
    /\ config.id = 1
    /\ config.owner = Publisher
    /\ DOMAIN config = {"id", "owner"}

\* A lock, a claim and a batch payout by an address other than the publisher
\* have all succeeded, and the fee coin of the payout went to the publisher.
C20_Witness ==
    /\ IsBatch(result)
    /\ result.status = OK
    /\ result.sender # Publisher
    /\ coins[nextId - 1 - Len(result.recipients)].owner = Publisher
    /\ \E i \in DOMAIN events : events[i].type = "NftLockEvent"
    /\ \E i \in DOMAIN events : events[i].type = "NftClaimEvent"

\* The ledgers L1 and L2 hold the same: the same records, the same NFT
\* owners, the same values in the coins of the ledger L they both come from,
\* the same number of coins and the same balance of every coin type for every
\* address, the same events.  (The ids of the coins created on the way, and
\* the order of the events, follow the order of execution.)
SameLedger(L, L1, L2) ==
    /\ L1.escrows = L2.escrows
    /\ L1.nfts = L2.nfts
    /\ L1.nextId = L2.nextId
    /\ \A c \in DOMAIN L.coins : L1.coins[c] = L2.coins[c]
    /\ \A a \in Addr, t \in Assets :
          /\ BalanceIn(L1.coins, a, t) = BalanceIn(L2.coins, a, t)
          /\ Cardinality({c \in DOMAIN L1.coins : L1.coins[c].owner = a
                                                  /\ L1.coins[c].asset = t})
             = Cardinality({c \in DOMAIN L2.coins : L2.coins[c].owner = a
                                                    /\ L2.coins[c].asset = t})
    /\ {L1.events[i] : i \in DOMAIN L1.events}
           = {L2.events[i] : i \in DOMAIN L2.events}
    /\ Len(L1.events) = Len(L2.events)

\* The pairs of claims C21 is about: two distinct live records, each with a
\* payment coin of its own (each pair once, whichever claim is called the
\* first).
ClaimPairs ==
    {q \in (DOMAIN escrows) \X (DOMAIN coins) \X (DOMAIN escrows)
             \X (DOMAIN coins) :
        /\ q[1] < q[3]
        /\ q[2] # q[4]
        /\ coins[q[2]].asset = PaymentCoin
        /\ coins[q[4]].asset = PaymentCoin}

\* Both orders of the two claims of q at the current time: the outcome of
\* each claim and the ledger after both.
FirstThenSecond(q) ==
    LET o1 == ClaimOutcome(Ledger, q[1], q[2], now)
        o2 == ClaimOutcome(o1.ledger, q[3], q[4], now)
    IN [first |-> o1.status, second |-> o2.status, mid |-> o1.ledger,
        ledger |-> o2.ledger]

SecondThenFirst(q) ==
    LET o2 == ClaimOutcome(Ledger, q[3], q[4], now)
        o1 == ClaimOutcome(o2.ledger, q[1], q[2], now)
    IN [first |-> o1.status, second |-> o2.status, mid |-> o2.ledger,
        ledger |-> o1.ledger]

\* C21. Independence across records: in every reachable state, for two
\* distinct live records each claimed with its own payment coin, either order
\* of the two claims gives each claim the same outcome and leaves the same
\* ledger, and the claim executed first leaves the other record as it was.
\* ClaimOutcome is what the claim transactions do.  (Every ledger the system
\* reaches is the ledger of a state between two transactions.)
C21_ClaimsCommute ==
    /\ [](Idle => \A q \in ClaimPairs :
             LET a == FirstThenSecond(q)
                 b == SecondThenFirst(q)
             IN /\ a.first = b.first
                /\ a.second = b.second
                /\ SameLedger(Ledger, a.ledger, b.ledger)
                /\ a.mid.escrows[q[3]] = escrows[q[3]]
                /\ b.mid.escrows[q[1]] = escrows[q[1]])
    /\ [][ClaimOn(result', escrows)
            => LET o == ClaimOutcome(Ledger, result'.escrow, result'.payment,
                                     now)
               IN /\ result'.status = o.status
                  /\ Ledger' = o.ledger]_vars

\* Two records are live whose claims, by two different recipients each with
\* a payment coin of its own, both succeed in either order, both at a
\* non-zero price.
C21_Witness ==
    \E q \in ClaimPairs :
        /\ FirstThenSecond(q).first = OK
        /\ FirstThenSecond(q).second = OK
        /\ SecondThenFirst(q).first = OK
        /\ escrows[q[1]].price > 0
        /\ escrows[q[3]].price > 0
        /\ coins[q[2]].owner # coins[q[4]].owner
        /\ escrows[q[1]].kind # escrows[q[3]].kind

\* C22 as stated: time-lock release is automatic: once the chain timestamp
\* has reached the unlock_time of a live time-locked record, the next step
\* of the system, whatever it is, releases what the record holds to its
\* recipient; nobody has to claim it.
C22_AsStated ==
    [][\A e \in DOMAIN escrows :
          (escrows[e].unlock_time > 0 /\ now >= escrows[e].unlock_time)
          => /\ e \notin DOMAIN escrows'
             /\ IF escrows[e].kind = "coin"
                THEN BalanceIn(coins', escrows[e].recipient, escrows[e].asset)
                        >= BalanceIn(coins, escrows[e].recipient,
                                     escrows[e].asset) + escrows[e].balance
                ELSE /\ escrows[e].item \in DOMAIN nfts'
                     /\ nfts'[escrows[e].item] = escrows[e].recipient
      ]_vars

\* C23. Claim error precedence: a claim that violates several preconditions
\* reports the first of sender, time, payment: a sender who is not the
\* recipient gets ENotRecipient also when the claim is early and underpaid,
\* and a recipient who is early and underpaid gets ENotReadyYet.
C23_ErrorPrecedence ==
    [][ClaimOn(result', escrows)
        => LET esc == escrows[result'.escrow]
               early == now < esc.unlock_time
               underpaid == coins[result'.payment].value < esc.price
           IN /\ result'.sender # esc.recipient
                    => result'.status = ENotRecipient
              /\ (result'.sender = esc.recipient /\ early /\ underpaid)
                    => result'.status = ENotReadyYet
      ]_vars

\* A claim of an NFT escrow that violated all three preconditions at once
\* (not the recipient, before unlock_time, payment below the price) was
\* refused with ENotRecipient.
C23_Witness ==
    /\ ClaimOn(result, escrows)
    /\ result.op = "claim_nft"
    /\ result.status = ENotRecipient
    /\ LET esc == escrows[result.escrow]
       IN /\ result.sender # esc.recipient
          /\ now < esc.unlock_time
          /\ coins[result.payment].value < esc.price

\* C24. Checked u64 arithmetic in batch_send_token: with vectors of equal
\* length, when the sum of the amounts, that sum times 50, or the sum plus
\* the fee does not fit in u64, the call aborts on the arithmetic whatever the
\* payment, and changes nothing; a call that succeeds reports and pays the
\* true sum and the fee of the true sum, never a wrapped one.
C24_CheckedArithmetic ==
    [][(IsBatch(result')
          /\ Len(result'.recipients) = Len(result'.amounts))
        => LET total == SumSeq(result'.amounts)
               fee == IF total = 0 THEN 0
                      ELSE MaxOf(1, (total * 50) \div 10000)
           IN /\ (total > U64_MAX \/ total * 50 > U64_MAX
                     \/ total + fee > U64_MAX)
                    => /\ result'.status = ArithmeticError
                       /\ UNCHANGED ledger
              /\ result'.status = OK
                    => /\ total * 50 <= U64_MAX
                       /\ events'[Len(events')].total_amount = total
                       /\ events'[Len(events')].fee_amount = fee
                       /\ coins'[result'.payment].value =
                              coins[result'.payment].value - total - fee
      ]_vars

\* Two amounts that each fit in u64 and whose sum does not: the call was
\* aborted on the addition and the payment coin holds what it held.
C24_Witness ==
    /\ IsBatch(result)
    /\ result.status = ArithmeticError
    /\ Len(result.recipients) = 2
    /\ Len(result.amounts) = 2
    /\ \A i \in 1..2 : result.amounts[i] <= U64_MAX
    /\ SumSeq(result.amounts) > U64_MAX
    /\ coins[result.payment].value = 1000
    /\ events = <<>>

\* C25. Fee bound: for every batch_send_token call with vectors of equal
\* length and a total of at least 1 whose fee is computed (total * 50 fits
\* in u64), the fee is at least 1 and at most the total, so a payment of
\* twice the total is never refused; on success the fee coin config.owner
\* receives is within these bounds.
C25_FeeBound ==
    [][(IsBatch(result')
          /\ Len(result'.recipients) = Len(result'.amounts)
          /\ SumSeq(result'.amounts) >= 1
          /\ SumSeq(result'.amounts) * 50 <= U64_MAX)
        => LET total == SumSeq(result'.amounts)
               payValue == coins[result'.payment].value
           IN /\ result'.status \in {OK, EInsufficientBalance}
              /\ payValue >= 2 * total => result'.status = OK
              /\ result'.status = EInsufficientBalance => payValue < 2 * total
              /\ payValue <= total => result'.status = EInsufficientBalance
              /\ result'.status = OK
                    => /\ coins'[nextId].value >= 1
                       /\ coins'[nextId].value <= total
                       /\ payValue - coins'[result'.payment].value <= 2 * total
      ]_vars

\* The bound is reached: a batch of total 1 was paid and cost its payer 2,
\* the fee being 1.
C25_Witness ==
    /\ IsBatch(result)
    /\ result.status = OK
    /\ SumSeq(result.amounts) = 1
    /\ LastEvent.fee_amount = 1
    /\ LastEvent.total_amount = 1
    /\ coins[result.payment].value \in {98, 498, 998}

\* The lock events of the log, by position.
LockEventsAt ==
    {i \in DOMAIN events : events[i].type \in {"CoinLockEvent", "NftLockEvent"}}

\* C26. Record identity is fresh: the id a lock gives its record is the id
\* of no record created before it, live or claimed, and of no other object;
\* so no two locks ever gave the same id, and the id of a claimed record
\* never names a live record again.
C26_FreshIds ==
    /\ [](/\ \A i, j \in LockEventsAt :
                events[i].escrow_id = events[j].escrow_id => i = j
          /\ DOMAIN escrows \cap ClaimedIds = {}
          /\ DOMAIN escrows \subseteq EscrowIds)
    /\ [][(IsLock(result') /\ result'.status = OK)
            => /\ result'.escrow \notin EscrowIds
               /\ result'.escrow \notin ClaimedIds
               /\ result'.escrow \notin DOMAIN escrows
               /\ result'.escrow \notin
                     DOMAIN coins \cup DOMAIN nfts \cup {config.id}
               /\ EscrowIds' = EscrowIds \cup {result'.escrow}
         ]_vars

\* A lock executed after the first record had been claimed: the new record
\* has another id than the claimed one, which names no live record.
C26_Witness ==
    /\ IsLock(result)
    /\ result.status = OK
    /\ ClaimedIds # {}
    /\ result.escrow \notin ClaimedIds
    /\ result.escrow \in DOMAIN escrows
    /\ \A e \in ClaimedIds : e \notin DOMAIN escrows /\ e < result.escrow
    /\ Cardinality(EscrowIds) = 2

\* The claim events of the log, by position.
ClaimEventsAt ==
    {j \in DOMAIN events : events[j].type \in {"CoinClaimEvent", "NftClaimEvent"}}

\* The lock event at i and the claim event at j are about the same record
\* and agree: same kind, same id, same amount or NFT, same price, the
\* claimer being the recipient named at the lock.
Correlated(i, j) ==
    /\ events[i].escrow_id = events[j].escrow_id
    /\ events[i].price = events[j].price
    /\ events[i].recipient = events[j].claimer
    /\ IF events[j].type = "CoinClaimEvent"
       THEN /\ events[i].type = "CoinLockEvent"
            /\ events[i].amount = events[j].amount
       ELSE /\ events[i].type = "NftLockEvent"
            /\ events[i].nft_id = events[j].nft_id

\* C27. Event correlation: every claim event of the log comes after exactly
\* one lock event with its record id, with which it agrees on the amount (or
\* NFT id) and the price and whose recipient is its claimer, and no record
\* id has two claim events.
C27_EventCorrelation ==
    \A j \in ClaimEventsAt :
        /\ Cardinality({i \in LockEventsAt :
                           events[i].escrow_id = events[j].escrow_id}) = 1
        /\ \E i \in LockEventsAt : i < j /\ Correlated(i, j)
        /\ \A k \in ClaimEventsAt :
              events[k].escrow_id = events[j].escrow_id => k = j

\* The log holds the locks of two records and then the claim of the second:
\* the claim event matches the second lock event, at a non-zero price,
\* claimed by another address than the creator.
C27_Witness ==
    /\ Len(events) = 3
    /\ LockEventsAt = {1, 2}
    /\ ClaimEventsAt = {3}
    /\ Correlated(2, 3)
    /\ events[3].price > 0
    /\ events[3].claimer # events[2].creator
    /\ events[1].recipient # events[2].recipient

\* C28. No expiry: if the time gate of a live record is open (now >=
\* unlock_time), then after any step that leaves the record live the gate is
\* still open and the assertions of a claim by the recipient paying the price
\* still pass; the clock never goes back.
C28_NoExpiry ==
    [][/\ now' >= now
       /\ \A e \in DOMAIN escrows :
             (now >= escrows[e].unlock_time /\ e \in DOMAIN escrows')
             => /\ now' >= escrows'[e].unlock_time
                /\ ClaimAbortCode(escrows'[e].recipient, now',
                                  escrows'[e].price, escrows'[e]) = OK
      ]_vars

\* A record with no time gate, locked at time 0, is still live at time 1
\* after a batch payout, and has just refused a claim by its creator.
C28_Witness ==
    /\ ClaimOn(result, escrows)
    /\ result.status = ENotRecipient
    /\ now = 1
    /\ escrows[result.escrow].unlock_time = 0
    /\ escrows[result.escrow].price > 0
    /\ result.sender = escrows[result.escrow].creator
    /\ Len(events) = 2
    /\ events[1].escrow_id = result.escrow
    /\ events[2].type = "BatchTokenEvent"

\* C29. Empty batch: batch_send_token with no recipients and no amounts
\* succeeds whatever the value of the payment coin, 0 included; the payment
\* keeps its value, no balance of any address changes (the fee coin created
\* for config.owner has value 0), and one BatchTokenEvent is appended with
\* recipient_count 0, total_amount 0 and fee_amount 0.
C29_EmptyBatch ==
    [][(IsBatch(result')
          /\ result'.recipients = <<>> /\ result'.amounts = <<>>)
        => /\ result'.status = OK
           /\ coins'[result'.payment] = coins[result'.payment]
           /\ \A c \in DOMAIN coins : coins'[c] = coins[c]
           /\ \A c \in DOMAIN coins' \ DOMAIN coins : coins'[c].value = 0
           /\ \A a \in Addr, t \in Assets :
                 BalanceIn(coins', a, t) = BalanceIn(coins, a, t)
           /\ events' = Append(events,
                  [type |-> "BatchTokenEvent", sender |-> result'.sender,
                   recipient_count |-> 0, total_amount |-> 0,
                   fee_amount |-> 0])
      ]_vars

\* An empty batch was paid with a coin of value 0, by an address that owns
\* nothing else of that coin type, and went through.
C29_Witness ==
    /\ IsBatch(result)
    /\ result.recipients = <<>>
    /\ result.amounts = <<>>
    /\ result.status = OK
    /\ coins[result.payment].value = 0
    /\ BalanceIn(coins, result.sender, coins[result.payment].asset) = 0
    /\ LastEvent.recipient_count = 0
    /\ LastEvent.fee_amount = 0

\* C30. Batch check precedence: the length assertion comes first: a call
\* whose vectors differ in length ends with ELengthMismatch, never with the
\* arithmetic abort or EInsufficientBalance, also when the amounts overflow
\* u64 or exceed the payment; and ELengthMismatch is reported for no other
\* call.
C30_LengthFirst ==
    [][IsBatch(result')
        => LET mismatch == Len(result'.recipients) # Len(result'.amounts)
           IN /\ mismatch
                    => result'.status \notin
                          {ArithmeticError, EInsufficientBalance, OK}
              /\ mismatch <=> result'.status = ELengthMismatch
      ]_vars

\* A call with one recipient and two amounts whose sum overflows u64 and
\* which the payment could not cover was refused with ELengthMismatch.
C30_Witness ==
    /\ IsBatch(result)
    /\ result.status = ELengthMismatch
    /\ Len(result.recipients) = 1
    /\ Len(result.amounts) = 2
    /\ SumSeq(result.amounts) > U64_MAX
    /\ coins[result.payment].value < result.amounts[1]

=============================================================================
